---- MODULE Spec2Model ----
(***************************************************************************)
(* A model of the evaluation engine of the iron interpreter                *)
(* (src/src/interp.rs): the recursive node dispatcher execute_node, the    *)
(* shared operand stack, the environment chain and the built-in library,   *)
(* with the paths and the module files that import works on.               *)
(*                                                                         *)
(* The interpreter is single-threaded and recursive, so each function of   *)
(* the source is an operator of the same name that maps an interpreter     *)
(* state st to the state the call leaves.  st is a record:                 *)
(*    stack  the shared operand stack (Vec<ExprAst>), bottom first         *)
(*    envs   the heap of environments; an Rc<RefCell<Environment>> is an   *)
(*           index into it, parent = 0 is None                             *)
(*    out    what print has written to standard output, one character     *)
(*           per element                                                   *)
(*    fail   TRUE once a fail!, a failed unwrap or an out-of-bounds index  *)
(*           has aborted the process; every later step is skipped          *)
(*    ret    the value the last native procedure returned                  *)
(*    log    a history of what the evaluation did (not program state)      *)
(*    depth  how many calls of execute_node are open (not program state)   *)
(* An Option is a sequence of length 0 (None) or 1 (Some).                 *)
(***************************************************************************)
EXTENDS Integers, Sequences, FiniteSets, TLC

VARIABLES phase, prog, pc, envs, stack, out, failed, last, log

vars == <<phase, prog, pc, envs, stack, out, failed, last, log>>

(***************************************************************************)
(* Bounds of the model.                                                    *)
(***************************************************************************)
\* longest array literal drawn as an input
MaxLen == 3
\* largest magnitude of an index drawn for get and set is MaxLen + MaxOver
MaxOver == 2
\* most operands drawn for = and +
MaxOps == 3
\* most arguments drawn for a closure call
MaxArgs == 3
\* most body expressions drawn for a closure
MaxBody == 3

(***************************************************************************)
(* Values (ExprAst).  A 64-bit number is the pair <<hi, lo>> that stands   *)
(* for hi * 2^53 + lo with |lo| small: the integers near the multiples of  *)
(* 2^53 are where i64 and f64 differ, and 2^53 itself is beyond the        *)
(* integers TLC computes with.                                              *)
(***************************************************************************)
Integer(n) == [t |-> "Integer", value |-> <<0, n>>]

Wide(hi, lo) == [t |-> "Integer", value |-> <<hi, lo>>]

Float(hi, lo) == [t |-> "Float", value |-> <<hi, lo>>]

Boolean(b) == [t |-> "Boolean", value |-> b]

Nil == [t |-> "Nil"]

String(s) == [t |-> "String", string |-> s]

Symbol(s) == [t |-> "Symbol", value |-> s]

Array(items) == [t |-> "Array", items |-> items]

Ident(name) == [t |-> "Ident", value |-> name]

Sexpr(op, operands) == [t |-> "Sexpr", op |-> op, operands |-> operands]

Code(params, code, env) == [t |-> "Code", params |-> params, code |-> code, env |-> env]

\* the two variants of a binding
EnvCode(thunk) == [ev |-> "EnvCode", thunk |-> thunk]

Value(ast) == [ev |-> "Value", ast |-> ast]

\* derived PartialEq of ExprAst: the same variant with the same fields
AstEq(a, b) == a.t = b.t /\ a = b

(***************************************************************************)
(* Environment                                                             *)
(***************************************************************************)
new(parent) == [parent |-> parent, values |-> << >>]

\* HashMap::insert
insert(values, key, value) ==
    [k \in DOMAIN values \cup {key} |-> IF k = key THEN value ELSE values[k]]

RECURSIVE find(_, _, _)
find(heap, e, key) ==
    IF key \in DOMAIN heap[e].values
    THEN <<heap[e].values[key]>>
    ELSE IF heap[e].parent # 0 THEN find(heap, heap[e].parent, key) ELSE << >>

\* a faulty replace that writes the binding into the environment it is
\* called on, whether or not that environment holds the key
replace_here(heap, e, key, value) ==
    [heap |-> [heap EXCEPT ![e].values = insert(@, key, value)], ok |-> TRUE]

\* a faulty replace that treats arrays as shared: every binding that holds
\* the value the key is bound to is rebound with it
replace_aliased(heap, e, key, value) ==
    [heap |-> [j \in DOMAIN heap |->
                  [heap[j] EXCEPT !.values =
                      [k \in DOMAIN @ |-> IF @[k] = find(heap, e, key)[1] THEN value
                                          ELSE @[k]]]],
     ok |-> TRUE]

RECURSIVE replace(_, _, _, _)
replace(heap, e, key, value) ==
    IF key \in DOMAIN heap[e].values
    THEN [heap |-> [heap EXCEPT ![e].values = insert(@, key, value)], ok |-> TRUE]
    ELSE IF heap[e].parent # 0
         THEN replace(heap, heap[e].parent, key, value)
         ELSE [heap |-> heap, ok |-> FALSE]

Builtins ==
    [name \in {"+", "=", "print", "if", "define", "fn", "get", "set", "len",
               "import", "type"} |-> EnvCode(name)]

populate_default(env) ==
    [env EXCEPT !.values =
        [k \in DOMAIN Builtins \cup {"FILE"} |->
            IF k = "FILE" THEN Value(String(<< >>)) ELSE Builtins[k]]]

(***************************************************************************)
(* The interpreter state threaded through the evaluation.                  *)
(***************************************************************************)
Fail(st) == [st EXCEPT !.fail = TRUE]

Push(st, v) == [st EXCEPT !.stack = Append(@, v)]

Return(st, v) == [st EXCEPT !.ret = v]

Log(st, e) == [st EXCEPT !.log = Append(@, e)]

\* Vec::pop, its result dropped: an empty vector stays empty
DropLast(s) == IF Len(s) = 0 THEN s ELSE SubSeq(s, 1, Len(s) - 1)

\* Vec::remove(i) for an index i (from 0) inside the vector
RemoveAt(s, i) == SubSeq(s, 1, i) \o SubSeq(s, i + 2, Len(s))

\* whether Vec::remove(i) returns Some: uint arithmetic that went below zero
\* wraps to an index far beyond the vector
InVec(s, i) == 0 <= i /\ i < Len(s)

(***************************************************************************)
(* f64 arithmetic on the numbers <<hi, lo>> = hi * 2^53 + lo.  A double    *)
(* carries 53 significant bits: in [2^k, 2^(k+1)) with k >= 53 only the    *)
(* multiples of 2^(k-52) exist, and a conversion or a sum rounds to the    *)
(* nearest of them, a tie to the one with the even significand.            *)
(***************************************************************************)
Abs(n) == IF n < 0 THEN -n ELSE n

RECURSIVE Pow2Floor(_)
Pow2Floor(m) == IF m <= 1 THEN 1 ELSE 2 * Pow2Floor(m \div 2)

\* the gap between neighbouring doubles at hi * 2^53 + lo
Spacing(v) ==
    LET hi == v[1]
        lo == v[2]
        below == (hi > 0 /\ lo < 0) \/ (hi < 0 /\ lo > 0)
        m == IF below THEN Abs(hi) - 1 ELSE Abs(hi)
    IN  IF m = 0 THEN 1 ELSE 2 * Pow2Floor(m)

RoundTiesEven(lo, s) ==
    LET r == lo % s
        down == lo - r
    IN  IF r = 0 THEN lo
        ELSE IF 2 * r < s THEN down
        ELSE IF 2 * r > s THEN down + s
        ELSE IF (down \div s) % 2 = 0 THEN down ELSE down + s

F64Round(v) == <<v[1], RoundTiesEven(v[2], Spacing(v))>>

\* `ast.value as f64`
I64ToF64(v) == F64Round(v)

\* `val += x` on doubles
F64Add(a, b) == F64Round(<<a[1] + b[1], a[2] + b[2]>>)

\* `val as i64` of an integral double inside the i64 range is exact
F64ToI64(v) == v

(***************************************************************************)
(* Built-in procedures.  Each takes the state, the environment it is       *)
(* called in and the operand count, and leaves its result in st.ret.       *)
(***************************************************************************)
RECURSIVE add_loop(_, _, _, _)
add_loop(st, ops, val, decimal) ==
    IF ops = 0
    THEN Return(st, IF decimal THEN [t |-> "Float", value |-> val]
                    ELSE [t |-> "Integer", value |-> F64ToI64(val)])
    ELSE IF Len(st.stack) = 0 THEN Fail(st)
    ELSE LET top == st.stack[Len(st.stack)]
             s1 == [st EXCEPT !.stack = DropLast(@)]
         IN  CASE top.t = "Integer" ->
                    add_loop(s1, ops - 1, F64Add(val, I64ToF64(top.value)), decimal)
               [] top.t = "Float" ->
                    add_loop(s1, ops - 1, F64Add(val, top.value), TRUE)
               [] OTHER -> Fail(s1)

add(st, env, ops) == add_loop(st, ops, <<0, 0>>, FALSE)

Digit(d) == <<"0", "1", "2", "3", "4", "5", "6", "7", "8", "9">>[d + 1]

RECURSIVE Digits(_)
Digits(n) == IF n < 10 THEN <<Digit(n)>> ELSE Append(Digits(n \div 10), Digit(n % 10))

RECURSIVE Decimal(_)
\* the decimal text of a number; the digits of hi * 2^53 + lo with hi # 0
\* are beyond the integers at hand, and its text is kept as #hi#lo
Decimal(v) ==
    IF v[1] # 0 THEN <<"#">> \o Decimal(<<0, v[1]>>) \o <<"#">> \o Decimal(<<0, v[2]>>)
    ELSE IF v[2] < 0 THEN <<"-">> \o Digits(-v[2]) ELSE Digits(v[2])

\* the scan of a string's characters: output is the buffered text,
\* escape whether the previous character was an unconsumed backslash
RECURSIVE print_chars(_, _, _, _, _)
print_chars(st, chars, i, output, escape) ==
    IF i > Len(chars)
    THEN IF escape THEN Fail(st) ELSE [st EXCEPT !.out = @ \o output]
    ELSE LET ch == chars[i]
         IN  IF ch = "\\"
             THEN IF escape
                  THEN print_chars(st, chars, i + 1, Append(output, "\\"), FALSE)
                  ELSE print_chars(st, chars, i + 1, output, TRUE)
             ELSE IF escape
             THEN CASE ch = "n" ->
                        print_chars([st EXCEPT !.out = @ \o output \o <<"\n">>],
                                    chars, i + 1, << >>, FALSE)
                    [] ch = "t" ->
                        print_chars([st EXCEPT !.out = @ \o output \o <<"\t">>],
                                    chars, i + 1, << >>, FALSE)
                    [] OTHER -> Fail(st)
             ELSE print_chars(st, chars, i + 1, Append(output, ch), FALSE)

RECURSIVE print_loop(_, _)
print_loop(st, ops) ==
    IF st.fail THEN st
    ELSE IF ops = 0 THEN Return(st, Integer(0))
    ELSE LET i == Len(st.stack) - ops
         IN  IF ~InVec(st.stack, i) THEN Fail(st)
             ELSE LET v == st.stack[i + 1]
                      s1 == [st EXCEPT !.stack = RemoveAt(@, i)]
                  IN  CASE v.t \in {"Integer", "Float"} ->
                             print_loop([s1 EXCEPT !.out = @ \o Decimal(v.value)], ops - 1)
                        [] v.t = "String" ->
                             print_loop(print_chars(s1, v.string, 1, << >>, FALSE), ops - 1)
                        [] v.t = "Symbol" ->
                             print_loop([s1 EXCEPT !.out = @ \o <<"'">> \o v.value], ops - 1)
                        [] v.t = "Boolean" ->
                             print_loop([s1 EXCEPT !.out =
                                            @ \o IF v.value THEN <<"t", "r", "u", "e">>
                                                 ELSE <<"f", "a", "l", "s", "e">>],
                                        ops - 1)
                        [] OTHER -> Fail(s1)

print(st, env, ops) == print_loop(st, ops)

\* a faulty index computation that counts a negative index from the last
\* element instead of from the length
get_index_from_last(items, idx) ==
    IF idx[1] # 0 THEN <<-1>>
    ELSE IF idx[2] < 0
         THEN IF Len(items) < -idx[2] THEN << >> ELSE <<Len(items) - 1 + idx[2]>>
         ELSE <<idx[2]>>

get_index(items, idx) ==
    \* the index get and set compute from idx.value; -1 stands for an index no
    \* vector reaches (a wide or wrapped uint), << >> for the fail! of a
    \* negative index whose magnitude exceeds the length
    IF idx[1] # 0 THEN IF idx[1] < 0 THEN << >> ELSE <<-1>>
    ELSE IF idx[2] < 0
         THEN IF Len(items) < -idx[2] THEN << >> ELSE <<Len(items) + idx[2]>>
         ELSE <<idx[2]>>

get(st, env, ops) ==
    IF ops # 2 THEN Fail(st)
    ELSE IF ~InVec(st.stack, Len(st.stack) - 2) THEN Fail(st)
    ELSE LET arr == st.stack[Len(st.stack) - 1]
             idx == st.stack[Len(st.stack)]
             s1 == [st EXCEPT !.stack = SubSeq(@, 1, Len(@) - 2)]
         IN  IF arr.t # "Array" THEN Fail([st EXCEPT !.stack = RemoveAt(@, Len(@) - 2)])
             ELSE IF idx.t # "Integer" THEN Fail(s1)
             ELSE LET i == get_index(arr.items, idx.value)
                  IN  IF i = << >> THEN Fail(s1)
                      ELSE IF ~InVec(arr.items, i[1]) THEN Fail(s1)
                      ELSE Return(s1, arr.items[i[1] + 1])

len(st, env, ops) ==
    IF ops # 1 THEN Fail(st)
    ELSE IF Len(st.stack) = 0 THEN Fail(st)
    ELSE LET top == st.stack[Len(st.stack)]
             s1 == [st EXCEPT !.stack = DropLast(@)]
         IN  IF top.t # "Array" THEN Fail(s1)
             ELSE Return(s1, Integer(Len(top.items)))

RECURSIVE equal_loop(_, _, _)
equal_loop(st, ops, cmpast) ==
    IF ops = 0 THEN Return(st, Boolean(TRUE))
    ELSE IF Len(st.stack) = 0 THEN Fail(st)
    ELSE LET top == st.stack[Len(st.stack)]
             s1 == [st EXCEPT !.stack = DropLast(@)]
         IN  IF ~AstEq(top, cmpast) THEN Return(s1, Boolean(FALSE))
             ELSE equal_loop(s1, ops - 1, cmpast)

equal(st, env, ops) ==
    IF ops < 2 THEN Fail(st)
    ELSE IF Len(st.stack) = 0 THEN Fail(st)
    ELSE equal_loop([st EXCEPT !.stack = DropLast(@)], ops - 1, st.stack[Len(st.stack)])

type_obj(st, env, ops) ==
    IF ops # 1 THEN Fail(st)
    ELSE IF Len(st.stack) = 0 THEN Fail(st)
    ELSE LET top == st.stack[Len(st.stack)]
             s1 == [st EXCEPT !.stack = DropLast(@)]
         IN  CASE top.t = "Integer" -> Return(s1, Symbol(<<"i", "n", "t", "e", "g", "e", "r">>))
               [] top.t = "Float" -> Return(s1, Symbol(<<"f", "l", "o", "a", "t">>))
               [] top.t = "Array" -> Return(s1, Symbol(<<"a", "r", "r", "a", "y">>))
               [] top.t = "List" -> Return(s1, Symbol(<<"l", "i", "s", "t">>))
               [] top.t = "String" -> Return(s1, Symbol(<<"s", "t", "r", "i", "n", "g">>))
               [] top.t = "Symbol" -> Return(s1, Symbol(<<"s", "y", "m", "b", "o", "l">>))
               [] top.t = "Code" -> Return(s1, Symbol(<<"c", "o", "d", "e">>))
               [] top.t = "Boolean" -> Return(s1, Symbol(<<"b", "o", "o", "l", "e", "a", "n">>))
               [] top.t = "Nil" -> Return(s1, Symbol(<<"n", "i", "l">>))
               [] OTHER -> Fail(s1)

(***************************************************************************)
(* The evaluator and the built-ins that call back into it.  A function     *)
(* that calls the evaluator is written as a chain of operators, one per    *)
(* stretch of its code between two such calls: the state a call returns    *)
(* is the first parameter of the operator for the code that follows it.    *)
(***************************************************************************)
RECURSIVE execute_node(_, _, _)

Top(st) == st.stack[Len(st.stack)]

Pop(st) == [st EXCEPT !.stack = DropLast(@)]

\* `stack.pop().unwrap()`, the value left in st.ret
pop_unwrap(st) ==
    IF st.fail THEN st
    ELSE IF Len(st.stack) = 0 THEN Fail(st)
    ELSE Return(Pop(st), Top(st))

\* a faulty define that overwrites the nearest binding of the name when an
\* enclosing environment holds one
define_insert_nearest(st, env) ==
    IF st.fail THEN st
    ELSE IF Len(st.stack) = 0 THEN Fail(st)
    ELSE IF Top(st).t # "Ident" THEN Fail(Pop(st))
    ELSE IF find(st.envs, env, Top(st).value) = << >>
    THEN Log([Pop(st) EXCEPT !.envs[env].values = insert(@, Top(st).value, Value(st.ret))],
             [ev |-> "define", env |-> env, name |-> Top(st).value, val |-> st.ret,
              pre |-> st.envs,
              post |-> [st.envs EXCEPT ![env].values = insert(@, Top(st).value, Value(st.ret))]])
    ELSE Log([Pop(st) EXCEPT !.envs = replace(@, env, Top(st).value, Value(st.ret)).heap],
             [ev |-> "define", env |-> env, name |-> Top(st).value, val |-> st.ret,
              pre |-> st.envs,
              post |-> replace(st.envs, env, Top(st).value, Value(st.ret)).heap])

\* define from the pop of the name on: st.ret holds valast
define_insert(st, env) ==
    IF st.fail THEN st
    ELSE IF Len(st.stack) = 0 THEN Fail(st)
    ELSE IF Top(st).t # "Ident" THEN Fail(Pop(st))
    ELSE Log([Pop(st) EXCEPT !.envs[env].values = insert(@, Top(st).value, Value(st.ret))],
             [ev |-> "define", env |-> env, name |-> Top(st).value, val |-> st.ret,
              pre |-> st.envs,
              post |-> [st.envs EXCEPT ![env].values = insert(@, Top(st).value, Value(st.ret))]])

define(st, env, ops) ==
    IF ops # 2 THEN Fail(st)
    ELSE IF Len(st.stack) = 0 THEN Fail(st)
    ELSE IF Top(st).t = "Sexpr"
         THEN define_insert(pop_unwrap(execute_node(Pop(st), env, Top(st))), env)
         ELSE define_insert(Return(Pop(st), Top(st)), env)

\* a faulty fn that captures a copy of the environment as it is when the
\* closure is made
function_snapshot(st, env, ops) ==
    IF ops = 0 THEN Fail(st)
    ELSE LET i == Len(st.stack) - ops
         IN  IF ~InVec(st.stack, i) THEN Fail(st)
             ELSE IF st.stack[i + 1].t # "Array"
                  THEN Fail([st EXCEPT !.stack = RemoveAt(@, i)])
                  ELSE Return([st EXCEPT !.stack = SubSeq(@, 1, i),
                                         !.envs = Append(@, @[env])],
                              Code(st.stack[i + 1].items,
                                   SubSeq(st.stack, i + 2, Len(st.stack)),
                                   Len(st.envs) + 1))

function(st, env, ops) ==
    IF ops = 0 THEN Fail(st)
    ELSE LET i == Len(st.stack) - ops
         IN  IF ~InVec(st.stack, i) THEN Fail(st)
             ELSE IF st.stack[i + 1].t # "Array"
                  THEN Fail([st EXCEPT !.stack = RemoveAt(@, i)])
                  ELSE Return([st EXCEPT !.stack = SubSeq(@, 1, i)],
                              Code(st.stack[i + 1].items,
                                   SubSeq(st.stack, i + 2, Len(st.stack)), env))

\* Vec::grow_set(index, initval, value): the vector is first grown with
\* initval until it holds index, then the element at index is set
grow_set(vec, index, initval, value) ==
    LET n == IF index < Len(vec) THEN Len(vec) ELSE index + 1
    IN  [k \in 1..n |-> IF k = index + 1 THEN value
                        ELSE IF k <= Len(vec) THEN vec[k] ELSE initval]

\* set from the computation of the index on: the three operands are off
\* the stack, name is bound to the array arrast
set_replace(st, env, name, arrast, idx, value) ==
    LET i == get_index(arrast.items, idx)
    IN  IF i = << >> THEN Fail(st)
        ELSE IF i[1] < 0 THEN Fail(st)
        ELSE LET heap == replace(st.envs, env, name,
                                 Value([arrast EXCEPT !.items =
                                            grow_set(arrast.items, i[1], Nil, value)])).heap
             IN  Return(Log([st EXCEPT !.envs = heap],
                            [ev |-> "set", env |-> env, name |-> name, idx |-> idx,
                             val |-> value, old |-> arrast.items,
                             pre |-> st.envs, post |-> heap]),
                        Nil)

set(st, env, ops) ==
    IF ops # 3 THEN Fail(st)
    ELSE IF ~InVec(st.stack, Len(st.stack) - 3) THEN Fail(st)
    ELSE LET target == st.stack[Len(st.stack) - 2]
             idx == st.stack[Len(st.stack) - 1]
             value == st.stack[Len(st.stack)]
             s1 == [st EXCEPT !.stack = RemoveAt(@, Len(@) - 3)]
             found == IF target.t = "Ident" THEN find(st.envs, env, target.value) ELSE << >>
         IN  IF target.t = "Array" THEN Return(s1, Nil)
             ELSE IF target.t # "Ident" \/ found = << >> THEN Fail(s1)
             ELSE IF found[1].ev # "Value" THEN Fail(s1)
             ELSE IF found[1].ast.t # "Array" THEN Fail(s1)
             ELSE IF idx.t # "Integer"
                  THEN Fail([st EXCEPT !.stack = SubSeq(@, 1, Len(@) - 3) \o <<value>>])
             ELSE set_replace([st EXCEPT !.stack = SubSeq(@, 1, Len(@) - 3)], env,
                              target.value, found[1].ast, idx.value, value)

\* if from the branch for a true condition on
ifexpr_ontrue(st, env, cond, ontrue) ==
    pop_unwrap(IF cond THEN execute_node(st, env, ontrue) ELSE st)

\* a faulty if that evaluates its else-branch whatever the condition is
ifexpr_both(st, env, ops, cond) ==
    LET j == Len(st.stack) - ops + 1
        ontrue == st.stack[j + 1]
        s2 == [st EXCEPT !.stack = RemoveAt(@, j)]
    IN  IF ops - 2 > 0
        THEN ifexpr_ontrue(execute_node(Pop(s2), env, Top(s2)), env, cond, ontrue)
        ELSE ifexpr_ontrue(s2, env, cond, ontrue)

\* if once the condition is off the stack; ops - 2 > 0: the else-branch is
\* popped, and evaluated when the condition is false
ifexpr_branches(st, env, ops, cond) ==
    LET j == Len(st.stack) - ops + 1
        ontrue == st.stack[j + 1]
        s2 == [st EXCEPT !.stack = RemoveAt(@, j)]
    IN  IF ops - 2 > 0
        THEN ifexpr_ontrue(IF ~cond THEN execute_node(Pop(s2), env, Top(s2)) ELSE Pop(s2),
                           env, cond, ontrue)
        ELSE ifexpr_ontrue(s2, env, cond, ontrue)

ifexpr(st, env, ops) ==
    IF ops < 2 \/ ops > 3 THEN Fail(st)
    ELSE IF ~InVec(st.stack, Len(st.stack) - ops) THEN Fail(st)
    ELSE LET c == st.stack[Len(st.stack) - ops + 1]
             s1 == [st EXCEPT !.stack = RemoveAt(@, Len(@) - ops)]
         IN  IF c.t # "Boolean" THEN Fail(s1)
             ELSE ifexpr_branches(s1, env, ops, c.value)

(***************************************************************************)
(* Paths (std::path::Path of the platform, POSIX).  A path is kept         *)
(* normalized: whether it is absolute, and its components with no empty    *)
(* one and no ".", and with ".." only where nothing precedes it.           *)
(***************************************************************************)
\* the pieces of s between its separators
RECURSIVE Split(_)
Split(s) ==
    IF \A i \in 1..Len(s) : s[i] # "/" THEN <<s>>
    ELSE LET i == CHOOSE i \in 1..Len(s) : s[i] = "/" /\ \A j \in 1..(i - 1) : s[j] # "/"
         IN  <<SubSeq(s, 1, i - 1)>> \o Split(SubSeq(s, i + 1, Len(s)))

\* the components comps pushed one by one on the components done
RECURSIVE normalize(_, _, _)
normalize(done, comps, abs) ==
    IF comps = << >> THEN done
    ELSE LET c == Head(comps)
             next == IF c = << >> \/ c = <<".">> THEN done
                     ELSE IF c = <<".", ".">>
                     THEN IF abs /\ done = << >> THEN done
                          ELSE IF done = << >> \/ done[Len(done)] = <<".", ".">>
                          THEN Append(done, c)
                          ELSE SubSeq(done, 1, Len(done) - 1)
                     ELSE Append(done, c)
         IN  normalize(next, Tail(comps), abs)

\* Path::new
PathNew(s) ==
    [abs |-> s # << >> /\ s[1] = "/",
     comps |-> normalize(<< >>, Split(s), s # << >> /\ s[1] = "/")]

\* Path::dir_path: "." and "/" and a path that ends in ".." are their own
\* directory
dir_path(path) ==
    IF path.comps = << >> THEN path
    ELSE IF path.comps[Len(path.comps)] = <<".", ".">> THEN path
    ELSE [path EXCEPT !.comps = SubSeq(@, 1, Len(@) - 1)]

\* Path::join: an absolute other replaces the path
join(path, other) ==
    IF other.abs THEN other
    ELSE [path EXCEPT !.comps = normalize(@, other.comps, path.abs)]

\* the position of the last "." of a file name, 0 for none
LastDot(name) ==
    IF \A i \in 1..Len(name) : name[i] # "." THEN 0
    ELSE CHOOSE i \in 1..Len(name) : name[i] = "." /\ \A j \in (i + 1)..Len(name) : name[j] # "."

\* Path::set_extension("irl"): a path without a file name is left alone; the
\* extension follows the last "." of the name unless that "." leads it
set_extension(path) ==
    IF path.comps = << >> THEN path
    ELSE IF path.comps[Len(path.comps)] = <<".", ".">> THEN path
    ELSE [path EXCEPT !.comps[Len(path.comps)] =
              (IF LastDot(@) <= 1 THEN @ ELSE SubSeq(@, 1, LastDot(@) - 1))
                  \o <<".", "i", "r", "l">>]

RECURSIVE Joined(_)
Joined(comps) ==
    IF Len(comps) = 1 THEN comps[1]
    ELSE comps[1] \o <<"/">> \o Joined(Tail(comps))

\* Path::as_str
as_str(path) ==
    IF path.comps = << >> THEN (IF path.abs THEN <<"/">> ELSE <<".">>)
    ELSE (IF path.abs THEN <<"/">> ELSE << >>) \o Joined(path.comps)

starts_with(s, prefix) == Len(s) >= Len(prefix) /\ SubSeq(s, 1, Len(prefix)) = prefix

ends_with(s, suffix) ==
    Len(s) >= Len(suffix) /\ SubSeq(s, Len(s) - Len(suffix) + 1, Len(s)) = suffix

\* the path import opens for the operand slice when FILE holds file
module_path(file, slice) ==
    IF ends_with(slice, <<".", "i", "r", "l">>)
    THEN join(dir_path(PathNew(file)), PathNew(slice))
    ELSE set_extension(join(dir_path(PathNew(file)), PathNew(slice)))

(***************************************************************************)
(* The file system import reads: the module files that exist, by the path  *)
(* they are opened with, and the forms the parser makes of each.           *)
(***************************************************************************)
ModM == <<"m", ".", "i", "r", "l">>

ModSubM == <<"s", "u", "b", "/", "m", ".", "i", "r", "l">>

ModSubN == <<"s", "u", "b", "/", "n", ".", "i", "r", "l">>

ModSubK == <<"s", "u", "b", "/", "k", ".", "i", "r", "l">>

ModSubF == <<"s", "u", "b", "/", "f", ".", "i", "r", "l">>

ModUpM == <<".", ".", "/", "m", ".", "i", "r", "l">>

ModuleFiles == {ModM, ModSubM, ModSubN, ModSubK, ModSubF, ModUpM}

ModuleCode(path) ==
    CASE path = ModM ->
            <<Sexpr("define", <<Ident("x"), Integer(1)>>),
              Sexpr("print", <<String(<<"m", "\\", "n">>)>>)>>
      [] path = ModSubM ->
            <<Sexpr("define", <<Ident("x"), Integer(2)>>),
              Sexpr("define", <<Ident("y"), Ident("x")>>),
              Sexpr("print", <<String(<<"s", "\\", "n">>)>>)>>
      [] path = ModSubN ->
            <<Sexpr("define", <<Ident("z"), Integer(4)>>)>>
      [] path = ModSubK ->
            <<Sexpr("import", <<String(<<".", "/", "n">>)>>),
              Sexpr("define", <<Ident("w"), Ident("z")>>)>>
      [] path = ModSubF ->
            <<Sexpr("define", <<Ident("FILE"), String(<<"q", "/", "r">>)>>),
              Sexpr("define", <<Ident("x"), Ident("u")>>)>>
      [] path = ModUpM ->
            <<Sexpr("define", <<Ident("x"), Integer(3)>>),
              Sexpr("define", <<Ident("print"), Integer(0)>>)>>

\* a faulty extend that keeps the value of a key already present
extend_absent(values, other) ==
    [k \in DOMAIN values \cup DOMAIN other |->
        IF k \in DOMAIN values THEN values[k] ELSE other[k]]

\* a faulty extend that leaves the entry of FILE as it is
extend_but_file(values, other) ==
    [k \in DOMAIN values \cup DOMAIN other |->
        IF k \in DOMAIN other /\ ~(k = "FILE" /\ k \in DOMAIN values) THEN other[k]
        ELSE values[k]]

\* HashMap::extend: every entry of other is inserted
extend(values, other) ==
    [k \in DOMAIN values \cup DOMAIN other |->
        IF k \in DOMAIN other THEN other[k] ELSE values[k]]

\* Interpreter::execute of a nested interpreter: the forms from the i-th on,
\* each on the interpreter's own stack, cleared after it
RECURSIVE execute(_, _, _, _)
execute(st, root, asts, i) ==
    IF st.fail \/ i > Len(asts) THEN st
    ELSE execute([execute_node(st, root, asts[i]) EXCEPT !.stack = << >>], root, asts, i + 1)

\* import once the module has run in the interpreter whose root is interp:
\* its bindings are merged into env; saved is the importer's stack
import_merge(st, env, interp, saved, slice, file, path, pre) ==
    IF st.fail THEN st
    ELSE Log([st EXCEPT !.stack = saved,
                        !.envs[env].values = extend(@, st.envs[interp].values)],
             [ev |-> "import", env |-> env, interp |-> interp, slice |-> slice,
              file |-> file, path |-> path, pre |-> pre,
              module |-> st.envs[interp].values,
              post |-> [st.envs EXCEPT ![env].values = extend(@, st.envs[interp].values)]])

\* Interpreter::new, load_code and set_file(path) of the nested interpreter:
\* its root environment joins the heap, its stack is empty
new_interpreter(st, path) ==
    [st EXCEPT !.stack = << >>,
               !.envs = Append(@, [populate_default(new(0)) EXCEPT
                                      !.values = insert(@, "FILE", Value(String(path)))])]

\* the nested interpreter as it starts to execute
module_start(st, interp, path) ==
    Log(st, [ev |-> "module", interp |-> interp, path |-> path,
             root |-> st.envs[interp], heap |-> st.envs])

\* import of one operand: a fresh interpreter with the code of the file
\* loaded and FILE set executes it
import_module(st, env, slice, file, path) ==
    IF path \notin ModuleFiles THEN Fail(st)
    ELSE import_merge(execute(module_start(new_interpreter(st, path), Len(st.envs) + 1, path),
                              Len(st.envs) + 1, ModuleCode(path), 1),
                      env, Len(st.envs) + 1, st.stack, slice, file, path, st.envs)

RECURSIVE import_loop(_, _, _)
import_next(st, env, ops) == import_loop(st, env, ops - 1)

import_loop(st, env, ops) ==
    IF st.fail THEN st
    ELSE IF ops = 0 THEN Return(st, Nil)
    ELSE IF ~InVec(st.stack, Len(st.stack) - ops) THEN Fail(st)
    ELSE LET v == st.stack[Len(st.stack) - ops + 1]
             s1 == [st EXCEPT !.stack = RemoveAt(@, Len(@) - ops)]
             file == find(st.envs, env, "FILE")
         IN  IF v.t # "String" THEN Fail(s1)
             ELSE IF ~(starts_with(v.string, <<".", "/">>)
                          \/ starts_with(v.string, <<".", ".", "/">>)) THEN Fail(s1)
             ELSE IF file = << >> THEN Fail(s1)
             ELSE IF file[1].ev # "Value" THEN Fail(s1)
             ELSE IF file[1].ast.t # "String" THEN Fail(s1)
             ELSE import_next(import_module(s1, env, v.string, file[1].ast.string,
                                            as_str(module_path(file[1].ast.string, v.string))),
                              env, ops)

importexpr(st, env, ops) ==
    IF ops = 0 THEN Fail(st) ELSE import_loop(st, env, ops)

\* the call of the native procedure an EnvCode binding holds
thunk(name, st, env, ops) ==
    CASE name = "+" -> add(st, env, ops)
      [] name = "=" -> equal(st, env, ops)
      [] name = "print" -> print(st, env, ops)
      [] name = "if" -> ifexpr(st, env, ops)
      [] name = "define" -> define(st, env, ops)
      [] name = "fn" -> function(st, env, ops)
      [] name = "get" -> get(st, env, ops)
      [] name = "set" -> set(st, env, ops)
      [] name = "len" -> len(st, env, ops)
      [] name = "import" -> importexpr(st, env, ops)
      [] name = "type" -> type_obj(st, env, ops)

\* a faulty loop that evaluates the nodes from the last one back to the i-th
RECURSIVE execute_all_reversed(_, _, _, _)
execute_all_reversed(st, env, nodes, i) ==
    IF st.fail \/ i > Len(nodes) THEN st
    ELSE execute_node(execute_all_reversed(st, env, nodes, i + 1), env, nodes[i])

\* `for subast in nodes[i..]: execute_node(env, stack, subast)`
RECURSIVE execute_all(_, _, _, _)
execute_all(st, env, nodes, i) ==
    IF st.fail \/ i > Len(nodes) THEN st
    ELSE execute_all(execute_node(st, env, nodes[i]), env, nodes, i + 1)

\* `for subast in nodes: stack.push(subast.clone())`
push_all(st, nodes) == IF st.fail THEN st ELSE [st EXCEPT !.stack = @ \o nodes]

\* the operands of an S-expression as its operator wants them on the stack
prepare_operands(st, env, sast) ==
    CASE sast.op = "fn" -> push_all(st, sast.operands)
      [] sast.op = "if" ->
            IF Len(sast.operands) = 0 THEN st
            ELSE push_all(execute_node(st, env, sast.operands[1]),
                          SubSeq(sast.operands, 2, Len(sast.operands)))
      [] sast.op \in {"define", "set"} ->
            IF Len(sast.operands) = 0 THEN st
            ELSE execute_all(Push(st, sast.operands[1]), env, sast.operands, 2)
      [] OTHER -> execute_all(st, env, sast.operands, 1)

\* the names that end with "..." and what is left of them without it
RestNames == [k \in {"b...", "r..."} |-> IF k = "b..." THEN "b" ELSE "r"]

\* the parameters from the count-th on are bound in sub to the arguments,
\* each removed from position idx of the stack
RECURSIVE bind_params(_, _, _, _, _, _)
bind_params(st, sub, params, count, len_, idx) ==
    IF st.fail \/ count >= Len(params) THEN st
    ELSE LET param == params[count + 1]
             n == len_ - count
         IN  IF param.t # "Ident" THEN Fail(st)
             ELSE IF param.value \in DOMAIN RestNames
             THEN IF n < 0 \/ idx < 0 \/ idx + n > Len(st.stack) THEN Fail(st)
                  ELSE bind_params(
                           [st EXCEPT !.stack = SubSeq(@, 1, idx) \o SubSeq(@, idx + n + 1, Len(@)),
                                      !.envs[sub].values =
                                          insert(@, RestNames[param.value],
                                                 Value(Array(SubSeq(st.stack, idx + 1, idx + n))))],
                           sub, params, count + 1, len_, idx)
             ELSE IF ~InVec(st.stack, idx) THEN Fail(st)
             ELSE bind_params(
                      [st EXCEPT !.stack = RemoveAt(@, idx),
                                 !.envs[sub].values = insert(@, param.value, Value(st.stack[idx + 1]))],
                      sub, params, count + 1, len_, idx)

\* the body expressions of a closure from the i-th on, each evaluated in
\* sub; vals collects what each left above the stack it started on
RECURSIVE execute_body(_, _, _, _, _)
body_next(st, sub, code, i, vals, base) ==
    execute_body(st, sub, code, i + 1, Append(vals, SubSeq(st.stack, base + 1, Len(st.stack))))

execute_body(st, sub, code, i, vals) ==
    IF st.fail THEN st
    ELSE IF i > Len(code)
    THEN Log(st, [ev |-> "body", env |-> sub, vals |-> vals])
    ELSE body_next(execute_node(st, sub, code[i]), sub, code, i, vals, Len(st.stack))

\* the call of a closure once its parameters are bound in sub; before is
\* the stack the call found
invoke_body(st, sast, ast, sub, before) ==
    IF st.fail THEN st
    ELSE execute_body(Log(st, [ev |-> "call", op |-> sast.op, env |-> sub,
                               depth |-> st.depth, code |-> ast,
                               parent |-> ast.env, params |-> ast.params,
                               args |-> IF Len(before) >= Len(sast.operands)
                                        THEN SubSeq(before, Len(before) - Len(sast.operands) + 1,
                                                    Len(before))
                                        ELSE before,
                               before |-> before, stack |-> st.stack,
                               heap |-> st.envs,
                               bound |-> st.envs[sub].values]),
                      sub, ast.code, 1, << >>)

\* a faulty call that pops no surplus argument: the parameters take the
\* last arguments and the first ones stay on the stack
invoke_no_drop(st, sast, ast) ==
    LET sub == Len(st.envs) + 1
        n == Len(sast.operands)
        nparams == Len(ast.params)
        len_ == IF n > nparams THEN nparams ELSE n
    IN  invoke_body(bind_params([st EXCEPT !.envs = Append(@, new(ast.env))],
                                sub, ast.params, 0, len_, Len(st.stack) - len_),
                    sast, ast, sub, st.stack)

\* the call of a closure: the operands of sast are on the stack, ast is the
\* Code.  The new environment enters the heap when it is made; nothing is
\* evaluated before the parameters are bound in it.
invoke(st, sast, ast) ==
    LET sub == Len(st.envs) + 1
        n == Len(sast.operands)
        nparams == Len(ast.params)
        \* more operands than parameters: the surplus is popped
        kept == IF n <= nparams THEN st.stack
                ELSE IF Len(st.stack) > n - nparams
                THEN SubSeq(st.stack, 1, Len(st.stack) - (n - nparams))
                ELSE << >>
        len_ == IF n > nparams THEN nparams ELSE n
    IN  invoke_body(bind_params([st EXCEPT !.envs = Append(@, new(ast.env)), !.stack = kept],
                                sub, ast.params, 0, len_, Len(kept) - len_),
                    sast, ast, sub, st.stack)

\* the result of a native procedure is pushed
push_result(st, sast, before) ==
    IF st.fail THEN st
    ELSE Push(Log(st, [ev |-> "thunk", op |-> sast.op, ops |-> Len(sast.operands),
                       depth |-> st.depth,
                       before |-> before, after |-> st.stack, val |-> st.ret]),
              st.ret)

\* an S-expression once its operands are prepared: the operator is looked
\* up and called
call(st, env, sast) ==
    LET thing == find(st.envs, env, sast.op)
    IN  IF st.fail THEN st
        ELSE IF thing = << >> THEN Fail(st)
        ELSE IF thing[1].ev = "EnvCode"
        THEN push_result(thunk(thing[1].thunk, st, env, Len(sast.operands)), sast, st.stack)
        ELSE IF thing[1].ast.t = "Code" THEN invoke(st, sast, thing[1].ast)
        ELSE Fail(st)

execute_sexpr(st, env, sast) == call(prepare_operands(st, env, sast), env, sast)

\* the match on the node
dispatch(st, env, node) ==
    LET found == IF node.t = "Ident" THEN find(st.envs, env, node.value) ELSE << >>
    IN  CASE node.t = "Sexpr" -> execute_sexpr(st, env, node)
          [] node.t = "Ident" ->
                 IF found = << >> THEN Fail(st)
                 ELSE IF found[1].ev = "Value" THEN Push(st, found[1].ast)
                 ELSE Fail(st)
          [] OTHER -> Push(st, node)

\* the loop that ends execute_node: a stack longer than stacklen + 1 is cut
\* back to stacklen + 1
trim(st, env, node, stacklen) ==
    IF st.fail THEN st
    ELSE LET cut == IF Len(st.stack) > stacklen + 1
                    THEN SubSeq(st.stack, 1, stacklen + 1)
                    ELSE st.stack
         IN  Log([st EXCEPT !.stack = cut, !.depth = @ - 1],
                 [ev |-> "ret", env |-> env, node |-> node, depth |-> st.depth,
                  entry |-> stacklen, exit |-> Len(cut),
                  res |-> SubSeq(cut, stacklen + 1, Len(cut))])

execute_node(st, env, node) ==
    IF st.fail THEN st
    ELSE trim(dispatch(Log([st EXCEPT !.depth = @ + 1],
                           [ev |-> "enter", env |-> env, node |-> node,
                            depth |-> st.depth + 1, entry |-> Len(st.stack)]),
                       env, node),
              env, node, Len(st.stack))

(***************************************************************************)
(* Programs: the root ASTs the parser hands to execute.  Forms are written *)
(* with the helpers below; numbers are Integer literals.                   *)
(***************************************************************************)
\* [1 2 .. L]
Iota(L) == Array([k \in 1..L |-> Integer(k)])

Def(name, e) == Sexpr("define", <<Ident(name), e>>)

Fn(params, body) == Sexpr("fn", <<Array(params)>> \o body)

Call(name, args) == Sexpr(name, args)

Idx == (0 - (MaxLen + MaxOver))..(MaxLen + MaxOver)

\* get and set on an array bound at the top level
ArrayPrograms ==
    {<<Def("a", Iota(L)), Call("get", <<Ident("a"), Integer(i)>>)>> :
        L \in 0..MaxLen, i \in Idx}
    \cup
    {<<Def("a", Iota(L)), Call("set", <<Ident("a"), Integer(i), Integer(9)>>),
       Call("get", <<Ident("a"), Integer(j)>>)>> :
        L \in 0..MaxLen, i \in Idx, j \in {-1, 0, 2}}

\* (= a1 .. an) over values of several types
EqVals == <<Integer(1), Integer(2), Boolean(TRUE), Iota(1)>>

EqPrograms ==
    UNION {{<<Call("=", [k \in 1..n |-> EqVals[c[k]]])>> :
              c \in [1..n -> 1..Len(EqVals)]} : n \in 0..MaxOps}

\* (+ a1 .. an) over integers, floats and integers beyond 2^53
AddVals == <<Integer(1), Integer(-2), Float(0, 1), Wide(1, 1), Wide(1, 2)>>

AddPrograms ==
    UNION {{<<Call("+", [k \in 1..n |-> AddVals[c[k]]])>> :
              c \in [1..n -> 1..Len(AddVals)]} : n \in 0..MaxOps}

\* a closure of m body expressions, the k-th a literal k or (define n k),
\* called alone and as an operand
BodyExpr(kind, k) == IF kind = 1 THEN Integer(k) ELSE Def("n", Integer(k))

BodyPrograms ==
    UNION {{<<Def("f", Fn(<< >>, [k \in 1..m |-> BodyExpr(c[k], k)])),
              Call("f", << >>),
              Call("+", <<Integer(5), Integer(6), Call("f", << >>)>>)>> :
              c \in [1..m -> 1..2]} : m \in 0..MaxBody}

\* a closure of k plain parameters and, with rest, one rest parameter placed
\* last (rest = 1) or first (rest = 2), called with the arguments 1 .. n
PNames == <<"a", "c", "d", "e">>

Params(k, rest) ==
    LET plain == [i \in 1..k |-> Ident(PNames[i])]
    IN  CASE rest = 0 -> plain
          [] rest = 1 -> Append(plain, Ident("b..."))
          [] rest = 2 -> <<Ident("b...")>> \o plain

ParamBody(k, rest) ==
    IF rest = 0 THEN <<Integer(0)>> ELSE <<Call("len", <<Ident("b")>>)>>

ParamPrograms ==
    {<<Def("x", Fn(Params(k, rest), ParamBody(k, rest))),
       Call("x", [i \in 1..n |-> Integer(i)])>> :
        k \in 0..MaxArgs, rest \in 0..2, n \in 0..MaxArgs}
    \cup
    {<<Def("x", Fn(Params(k, 0), IF k = 0 THEN <<Integer(0)>> ELSE <<Ident(PNames[k])>>)),
       Call("+", <<Integer(10), Call("x", [i \in 1..n |-> Integer(i)])>>)>> :
        k \in 0..MaxArgs, n \in 0..MaxArgs}

\* (define x (fn [a b...] (+ a (len b)))) (x 1 2 3 4)
RestScenario ==
    <<Def("x", Fn(<<Ident("a"), Ident("b...")>>,
                  <<Call("+", <<Ident("a"), Call("len", <<Ident("b")>>)>>)>>)),
      Call("x", <<Integer(1), Integer(2), Integer(3), Integer(4)>>)>>

\* define inside closure bodies, with and without an outer binding of n
ScopePrograms ==
    {(IF outer THEN <<Def("n", Integer(1))>> ELSE << >>) \o
     <<Def("g", Fn(<< >>, <<Ident("n")>>)),
       Def("f", Fn(<< >>, <<Def("n", Integer(v)),
                           Def("h", Fn(<< >>, <<Ident("n")>>)),
                           Call("h", << >>),
                           Def("k", Fn(<< >>, <<Def("n", Integer(v + 1)), Ident("n")>>)),
                           Call("k", << >>),
                           Call("h", << >>),
                           Ident("n")>>)),
       Call("f", << >>)>> \o tail :
        outer \in BOOLEAN, v \in {5, 7},
        tail \in {<<Call("g", << >>), Call("f", << >>), Ident("n")>>,
                  <<Call("f", << >>), Call("g", << >>)>>,
                  <<Ident("n")>>}}

\* set from closure bodies: on a root binding, on a binding local to the
\* closure, on a parameter, from a nested closure, and on an unbound name
SetBody(kind) ==
    CASE kind = 1 -> <<Call("set", <<Ident("a"), Ident("i"), Integer(9)>>)>>
      [] kind = 2 -> <<Def("a", Iota(2)),
                       Call("set", <<Ident("a"), Ident("i"), Integer(9)>>),
                       Call("g", << >>)>>
      [] kind = 3 -> <<Def("t", Fn(<< >>, <<Call("set", <<Ident("a"), Ident("i"),
                                                        Integer(9)>>)>>)),
                       Call("t", << >>),
                       Call("g", << >>)>>
      [] kind = 4 -> <<Call("set", <<Ident("z"), Ident("i"), Integer(9)>>)>>
      [] kind = 5 -> <<Def("z", Iota(1)),
                       Def("t", Fn(<<Ident("a")>>, <<Call("set", <<Ident("a"), Ident("i"),
                                                                  Integer(9)>>),
                                                    Call("get", <<Ident("a"), Ident("i")>>)>>)),
                       Call("t", <<Ident("z")>>),
                       Call("g", << >>)>>

SetScopePrograms ==
    {<<Def("a", Iota(L)),
       Def("g", Fn(<< >>, <<Call("get", <<Ident("a"), Integer(0)>>)>>)),
       Def("s", Fn(<<Ident("i")>>, SetBody(kind))),
       Call("s", <<Integer(i)>>),
       Call("g", << >>)>> :
        L \in 1..MaxLen, kind \in 1..5, i \in {-1, 0}}

\* (define a [1 2]) (define b a) (set a i 9) (get b i)
AliasScenario(i) ==
    <<Def("a", Iota(2)), Def("b", Ident("a")),
      Call("set", <<Ident("a"), Integer(i), Integer(9)>>),
      Call("get", <<Ident("b"), Integer(i)>>)>>

\* (define a [[1 2] 3]) (define e (get a 0)) (set e i 9) (get (get a 0) i)
ElementScenario(i) ==
    <<Def("a", Array(<<Iota(2), Integer(3)>>)),
      Def("e", Call("get", <<Ident("a"), Integer(0)>>)),
      Call("set", <<Ident("e"), Integer(i), Integer(9)>>),
      Call("get", <<Call("get", <<Ident("a"), Integer(0)>>), Integer(i)>>)>>

\* arrays held by several bindings, one of which is set: a second name, a
\* parameter, an element taken out by get, a name of an inner scope
ValuePrograms ==
    {AliasScenario(i) : i \in {0, 1}}
    \cup {ElementScenario(i) : i \in {0, 1}}
    \cup
    {<<Def("a", Iota(L)),
       Def("f", Fn(<<Ident("p")>>,
                   <<Call("get", <<Ident("p"), Integer(0)>>),
                     Call("set", <<Ident(n), Integer(i), Integer(9)>>),
                     Def("q", Ident("p"))>>)),
       Call("f", <<Ident("a")>>),
       Call("get", <<Ident("a"), Integer(i)>>)>> :
        L \in 1..MaxLen, n \in {"a", "p"}, i \in {0, -1}}

\* (define y 1) (define f (fn [] y)) (define g (fn [y] (f))) (g 2)
LexicalScenario ==
    <<Def("y", Integer(1)), Def("f", Fn(<< >>, <<Ident("y")>>)),
      Def("g", Fn(<<Ident("y")>>, <<Call("f", << >>)>>)), Call("g", <<Integer(2)>>)>>

\* (define f (fn [] z)) (define z 5) (f) (define z 6) (f)
LateScenario ==
    <<Def("f", Fn(<< >>, <<Ident("z")>>)), Def("z", Integer(5)), Call("f", << >>),
      Def("z", Integer(6)), Call("f", << >>)>>

\* closures called from scopes that bind their free names differently, and
\* closures whose captured environment changes after they were made
LexicalPrograms ==
    {LexicalScenario, LateScenario}
    \cup
    {<<Def("y", Integer(1)),
       Def("mk", Fn(<<Ident("y")>>, <<Fn(<< >>, <<Ident("y")>>)>>)),
       Def("h", Call("mk", <<Integer(v)>>)),
       Def("g", Fn(<<Ident("y")>>, <<Call("h", << >>)>>)),
       Call("g", <<Integer(3)>>),
       Call("h", << >>)>> : v \in {2, 4}}
    \cup
    {<<Def("a", Iota(2)),
       Def("f", Fn(<< >>, <<Call("get", <<Ident("a"), Integer(0)>>)>>)),
       Def("g", Fn(<<Ident("a")>>, <<Call("f", << >>)>>)),
       Call("set", <<Ident("a"), Integer(0), Integer(v)>>),
       Call("g", <<Iota(1)>>)>> : v \in {7, 8}}

\* (import "path")
Imp(path) == Call("import", <<String(path)>>)

\* "./m", "./m.irl", "./m.x", "./sub/m", "../m", "./sub/k", "./sub/f",
\* "./zz", "m"
ImportPaths ==
    <<<<".", "/", "m">>,
      <<".", "/", "m", ".", "i", "r", "l">>,
      <<".", "/", "m", ".", "x">>,
      <<".", "/", "s", "u", "b", "/", "m">>,
      <<".", ".", "/", "m">>,
      <<".", "/", "s", "u", "b", "/", "k">>,
      <<".", "/", "s", "u", "b", "/", "f">>,
      <<".", "/", "z", "z">>,
      <<"m">>>>

\* import alone, after definitions of the importer, twice in a row, with
\* two operands, followed by another relative import, from a closure body,
\* after a define of FILE, and with bad operands
ImportPrograms ==
    {<<Imp(ImportPaths[i]), Ident("x"), Ident("FILE")>> : i \in 1..Len(ImportPaths)}
    \cup
    {<<Def("x", Integer(0)), Def("u", Integer(8)), Imp(ImportPaths[i]), Ident("x"),
       Ident("u")>> : i \in 1..Len(ImportPaths)}
    \cup
    {<<Imp(ImportPaths[i]), Imp(ImportPaths[i]), Ident("x")>> : i \in 1..Len(ImportPaths)}
    \cup
    {<<Call("import", <<String(ImportPaths[i]), String(ImportPaths[j])>>), Ident("x")>> :
        i \in {1, 4, 5}, j \in {1, 4, 5}}
    \cup
    {<<Imp(ImportPaths[i]), Imp(<<".", "/", "n">>), Ident("z")>> : i \in {1, 4, 6}}
    \cup
    {<<Imp(ImportPaths[6]), Imp(ImportPaths[1]), Ident("x")>>,
      <<Def("f", Fn(<< >>, <<Imp(ImportPaths[1]), Def("k", Ident("x"))>>)),
        Call("f", << >>), Ident("x")>>,
      <<Def("FILE", Integer(5)), Imp(ImportPaths[1])>>,
      <<Def("FILE", String(<<"s", "u", "b", "/", "z", "z">>)), Imp(ImportPaths[1]),
        Ident("x")>>,
      <<Imp(ImportPaths[5]), Call("print", <<Integer(1)>>)>>,
      <<Call("import", << >>)>>,
      <<Call("import", <<Integer(5)>>)>>}

\* if with two and three operands, alone and below other operands
Yes == Call("print", <<String(<<"y", "e", "s", "\\", "n">>)>>)

No == Call("print", <<String(<<"n", "o", "\\", "n">>)>>)

Conds == <<Call("=", <<Integer(1), Integer(1)>>), Call("=", <<Integer(1), Integer(2)>>),
           Boolean(TRUE), Boolean(FALSE), Integer(1)>>

Branches == <<Yes, No, Def("x", Integer(1)), Def("y", Integer(2)), Integer(7),
              Sexpr("if", <<Boolean(FALSE), Yes, No>>),
              Sexpr("if", <<Boolean(FALSE), Integer(7)>>)>>

IfPrograms ==
    {<<Sexpr("if", <<Conds[c], Branches[t], Branches[e]>>)>> :
        c \in 1..Len(Conds), t \in 1..Len(Branches), e \in 1..Len(Branches)}
    \cup
    {<<Sexpr("if", <<Conds[c], Branches[t]>>)>> :
        c \in 1..Len(Conds), t \in 1..Len(Branches)}
    \cup
    {<<Call("+", <<Integer(5), Integer(6), Sexpr("if", <<Conds[c], Branches[t]>>)>>)>> :
        c \in 1..Len(Conds), t \in 1..Len(Branches)}
    \cup
    {<<Call("len", <<Iota(2)>>),
       Call("+", <<Integer(5), Sexpr("if", <<Conds[c], Branches[t], Branches[e]>>)>>)>> :
        c \in 1..Len(Conds), t \in 1..Len(Branches), e \in 1..Len(Branches)}
    \cup
    {<<Sexpr("if", SubSeq(<<Boolean(TRUE), Integer(1), Integer(2), Integer(3)>>, 1, n))>> :
        n \in {0, 1, 4}}

\* (define f (fn [x] 1)) (f (define f (fn [x] 2)))
RebindScenario ==
    <<Def("f", Fn(<<Ident("x")>>, <<Integer(1)>>)),
      Call("f", <<Def("f", Fn(<<Ident("x")>>, <<Integer(2)>>))>>)>>

\* (nope (print "yes\n") (print "no\n"))
UnboundScenario == <<Call("nope", <<Yes, No>>)>>

\* operands with side effects under built-ins, closures, unbound and
\* non-callable operators, and operands that use what an earlier one defined
OrderPrograms ==
    {RebindScenario, UnboundScenario,
     <<Call("+", <<Yes, No>>)>>,
     <<Def("v", Integer(3)), Call("v", <<No, Yes>>)>>,
     <<Def("f", Fn(<<Ident("a"), Ident("c")>>, <<Ident("c")>>)),
       Call("f", <<Def("s", Integer(1)), Ident("s")>>)>>,
     <<Def("f", Fn(<<Ident("a"), Ident("c")>>, <<Yes>>)),
       Call("f", <<No, Call("f", <<Integer(1), Integer(2)>>)>>)>>,
     <<Call("len", <<Def("q", Iota(1))>>), Call("get", <<Def("q", Iota(2)), Call("len", <<Ident("q")>>)>>)>>,
     <<Call("g", <<Def("g", Fn(<< >>, <<Integer(4)>>))>>)>>}

\* the other built-ins and the errors of the dispatcher
MiscPrograms ==
    {<<Call("print", <<Integer(12), Integer(-3), Boolean(TRUE), Boolean(FALSE),
                       String(<<"a", "\\", "t", "b", "\\", "\\", "c">>)>>)>>,
     <<Call("print", <<String(<<"a", "\\", "q">>)>>)>>,
     <<Call("print", <<String(<<"a", "\\">>)>>)>>,
     <<Call("print", <<Call("type", <<Integer(1)>>), Call("type", <<Iota(1)>>)>>)>>,
     <<Call("print", <<Wide(1, -2), Float(0, 3), Nil>>)>>,
     <<Call("type", <<Nil>>), Call("type", <<Integer(1), Integer(2)>>)>>,
     <<Call("len", <<Iota(2)>>), Call("len", <<Integer(1)>>)>>,
     <<Call("nope", <<Yes>>)>>,
     <<Def("v", Integer(3)), Ident("v"), Call("v", << >>)>>,
     <<Ident("print")>>,
     <<Def("print", Integer(5)), Call("print", <<Integer(1)>>)>>,
     <<Def("+", Fn(<<Ident("a"), Ident("c")>>, <<Ident("c")>>)),
       Call("+", <<Integer(1), Integer(2)>>)>>,
     <<Ident("undeclared")>>,
     <<Def("f", Fn(<<Integer(1)>>, <<Integer(2)>>)), Call("f", <<Integer(3)>>)>>,
     <<Sexpr("fn", << >>)>>,
     <<Sexpr("fn", <<Integer(1)>>)>>,
     <<Sexpr("define", <<Ident("q")>>)>>,
     <<Sexpr("define", <<Integer(1), Integer(2)>>)>>,
     <<Call("set", <<Iota(2), Integer(0), Integer(5)>>)>>,
     <<Call("get", <<Iota(2), Integer(1)>>), Call("get", <<Integer(2), Integer(1)>>)>>}

Programs ==
    ArrayPrograms \cup EqPrograms \cup AddPrograms \cup BodyPrograms \cup ParamPrograms
        \cup {RestScenario} \cup ScopePrograms \cup SetScopePrograms \cup ValuePrograms \cup LexicalPrograms
        \cup OrderPrograms
        \cup ImportPrograms
        \cup IfPrograms
        \cup MiscPrograms

\* the path the embedding program gives set_file
MainFile == <<"m", "a", "i", "n", ".", "i", "r", "l">>

(***************************************************************************)
(* Interpreter                                                             *)
(***************************************************************************)
\* Interpreter::new: the root environment with the built-ins, an empty stack
Init ==
    /\ phase = "new"
    /\ prog = << >>
    /\ pc = 1
    /\ envs = <<populate_default(new(0))>>
    /\ stack = << >>
    /\ out = << >>
    /\ failed = FALSE
    /\ last = << >>
    /\ log = << >>

set_file ==
    /\ phase = "new"
    /\ phase' = "file"
    /\ envs' = [envs EXCEPT ![1].values = insert(@, "FILE", Value(String(MainFile)))]
    /\ UNCHANGED <<prog, pc, stack, out, failed, last, log>>

\* load_code, and the parse of it that execute begins with
load_code ==
    /\ phase = "file"
    /\ \E p \in Programs : prog' = p
    /\ phase' = "run"
    /\ UNCHANGED <<pc, envs, stack, out, failed, last, log>>

\* what a top-level form leaves: st is the state execute_node returned
form_done(st) ==
    /\ envs' = st.envs
    /\ out' = st.out
    /\ failed' = st.fail
    /\ last' = st.stack
    /\ log' = st.log
    /\ stack' = << >>

\* one turn of execute's loop: a top-level form is evaluated in the root
\* environment on the interpreter's stack, and the stack is cleared; last
\* keeps the stack as the form left it
execute_form ==
    /\ phase = "run"
    /\ ~failed
    /\ pc <= Len(prog)
    /\ form_done(execute_node([stack |-> stack, envs |-> envs, out |-> out,
                               fail |-> FALSE, ret |-> Nil, log |-> << >>, depth |-> 0],
                              1, prog[pc]))
    /\ pc' = pc + 1
    /\ UNCHANGED <<phase, prog>>

\* execute returns its exit status
execute_exit ==
    /\ phase = "run"
    /\ ~failed
    /\ pc > Len(prog)
    /\ phase' = "exit"
    /\ UNCHANGED <<prog, pc, envs, stack, out, failed, last, log>>

Next == set_file \/ load_code \/ execute_form \/ execute_exit

Spec == Init /\ [][Next]_vars

(***************************************************************************)
(* Properties.  log holds the history of the form executed last: an       *)
(* "enter" and, unless the process aborted, a "ret" per call of            *)
(* execute_node, a "thunk" per native call that returned (followed at once *)
(* by the "ret" of its S-expression), a "call" and a "body" per closure    *)
(* call (the "body" followed at once by the "ret" of its S-expression),    *)
(* a "define" and a "set" per binding written by these built-ins, and a    *)
(* "module" and an "import" per module imported, as its interpreter starts *)
(* and as its bindings are merged.                                         *)
(***************************************************************************)
Events(kind) == {i \in 1..Len(log) : log[i].ev = kind}

\* two Options hold the same value
SameOpt(a, b) == Len(a) = Len(b) /\ (Len(a) = 1 => AstEq(a[1], b[1]))

\* the operands a native call found on the stack, first operand first
Operands(e) ==
    IF Len(e.before) >= e.ops
    THEN SubSeq(e.before, Len(e.before) - e.ops + 1, Len(e.before))
    ELSE e.before

\* C1: whenever execute_node returns, for any node, stack and environment,
\* the stack is exactly one longer than it was on entry.
C1_NetPlusOne == \A i \in Events("ret") : log[i].exit = log[i].entry + 1

\* C2: the value a call of a closure with m >= 1 body expressions leaves on
\* the stack is the value of the last body expression.
C2_LastBodyValue ==
    \A i \in Events("body") :
        Len(log[i].vals) >= 1 =>
            SameOpt(log[i + 1].res, log[i].vals[Len(log[i].vals)])

\* the parameter lists made of k plain names followed by one rest name
PlainThenRest(params) ==
    /\ Len(params) >= 1
    /\ \A k \in 1..Len(params) :
          /\ params[k].t = "Ident"
          /\ (params[k].value \in DOMAIN RestNames) = (k = Len(params))

\* C3: a closure with k plain parameters followed by one rest parameter,
\* called with n >= k arguments, binds the plain parameters to the arguments
\* 1..k and the rest parameter to the array of the arguments k+1..n in
\* order; (define x (fn [a b...] (+ a (len b)))) (x 1 2 3 4) is 4.
C3_RestBinding ==
    /\ \A i \in Events("call") :
          LET e == log[i]
              k == Len(e.params) - 1
              n == Len(e.args)
          IN  (PlainThenRest(e.params) /\ n >= k) =>
                 /\ \A j \in 1..k : e.bound[e.params[j].value] = Value(e.args[j])
                 /\ e.bound[RestNames[e.params[k + 1].value]]
                        = Value(Array(SubSeq(e.args, k + 1, n)))
    /\ (prog = RestScenario /\ pc = 3) => (~failed /\ last = <<Integer(4)>>)

\* C4: (= a1 .. an) with n >= 2 yields true iff every operand equals the
\* first, and false otherwise, wherever the first mismatch is.
C4_EqualAll ==
    \A i \in Events("thunk") :
        (log[i].op = "=" /\ log[i].ops >= 2) =>
            LET a == Operands(log[i])
            IN  SameOpt(log[i + 1].res,
                        <<Boolean(\A k \in 1..Len(a) : AstEq(a[k], a[1]))>>)

\* the top-level programs (define a [..]) (get a i) .. and (define a [..])
\* (set a i v) ..: the array literal, the built-in called and its index
ArrayForm ==
    /\ Len(prog) >= 2
    /\ prog[1].t = "Sexpr"
    /\ prog[1].op = "define"
    /\ Len(prog[1].operands) = 2
    /\ prog[1].operands[1] = Ident("a")
    /\ prog[1].operands[2].t = "Array"
    /\ prog[2].t = "Sexpr"
    /\ prog[2].op \in {"get", "set"}
    /\ Len(prog[2].operands) >= 2
    /\ prog[2].operands[1] = Ident("a")
    /\ prog[2].operands[2].t = "Integer"

ArrayLit == prog[1].operands[2]

ArrayIndex == prog[2].operands[2].value[2]

\* C5: get and set with an index whose magnitude exceeds the length abort,
\* for a negative and for a positive index, and the set leaves the binding
\* of the array as it was.
C5_BoundsBothWays ==
    (ArrayForm /\ pc = 3 /\ Abs(ArrayIndex) > Len(ArrayLit.items)) =>
        /\ failed
        /\ envs[1].values["a"] = Value(ArrayLit)

\* the nearest environment on the chain of e that holds key, 0 for none
RECURSIVE Holder(_, _, _)
Holder(heap, e, key) ==
    IF e = 0 THEN 0
    ELSE IF key \in DOMAIN heap[e].values THEN e
    ELSE Holder(heap, heap[e].parent, key)

\* (define a [1 2 3]) (set a -1 9) (get a 2)
SetLastScenario ==
    <<Def("a", Iota(3)), Call("set", <<Ident("a"), Integer(-1), Integer(9)>>),
      Call("get", <<Ident("a"), Integer(2)>>)>>

\* C6: on an array of length L >= 1, get with index -1 returns the last
\* element and with index -L the first; set with index -1 replaces only the
\* last element and with -L only the first, the length unchanged; with
\* a = [1 2 3], (set a -1 9) then (get a 2) yields 9.
C6_NegativeIndex ==
    /\ \A i \in Events("thunk") :
          log[i].op = "get" =>
              LET items == Operands(log[i])[1].items
                  idx == Operands(log[i])[2].value
              IN  (Len(items) >= 1 /\ idx[1] = 0 /\ idx[2] \in {-1, -Len(items)}) =>
                      AstEq(log[i].val, items[Len(items) + idx[2] + 1])
    /\ \A i \in Events("set") :
          LET e == log[i]
              L == Len(e.old)
              now == find(e.post, e.env, e.name)[1].ast.items
          IN  (L >= 1 /\ e.idx[1] = 0 /\ e.idx[2] \in {-1, -L}) =>
                  /\ Len(now) = L
                  /\ \A k \in 1..L :
                        AstEq(now[k], IF k = L + e.idx[2] + 1 THEN e.val ELSE e.old[k])
    /\ (ArrayForm /\ pc = 3 /\ Len(ArrayLit.items) >= 1
            /\ ArrayIndex \in {-1, -Len(ArrayLit.items)}) => ~failed
    /\ (prog = SetLastScenario /\ pc = 4) => (~failed /\ last = <<Integer(9)>>)

C6_Witness == prog = SetLastScenario /\ pc = 4 /\ ~failed /\ last = <<Integer(9)>>

\* no define and no set writes the binding of name in environment e
\* between the events i and j
Unwritten(i, j, e, name) ==
    \A m \in (i + 1)..(j - 1) :
        /\ ~(log[m].ev = "define" /\ log[m].env = e /\ log[m].name = name)
        /\ ~(log[m].ev = "set" /\ log[m].name = name
                /\ Holder(log[m].pre, log[m].env, name) = e)

\* C7: a define of n inserts n into the environment it is executed in, the
\* child environment of the invocation when it is in a closure body: every
\* other environment and every other name keep their binding, and lookups
\* of n from that environment and from its later descendants see the value.
C7_DefineLocal ==
    /\ \A i \in Events("define") :
          LET e == log[i]
          IN  /\ Len(e.post) = Len(e.pre)
              /\ \A j \in 1..Len(e.pre) : j # e.env => e.post[j] = e.pre[j]
              /\ e.post[e.env].parent = e.pre[e.env].parent
              /\ DOMAIN e.post[e.env].values = DOMAIN e.pre[e.env].values \cup {e.name}
              /\ \A k \in DOMAIN e.pre[e.env].values \ {e.name} :
                    e.post[e.env].values[k] = e.pre[e.env].values[k]
              /\ find(e.post, e.env, e.name) = <<Value(e.val)>>
    /\ \A i \in Events("define") : \A j \in Events("ret") :
          (/\ i < j
           /\ log[j].node.t = "Ident"
           /\ log[j].node.value = log[i].name
           /\ Holder(envs, log[j].env, log[i].name) = log[i].env
           /\ Unwritten(i, j, log[i].env, log[i].name))
              => SameOpt(log[j].res, <<log[i].val>>)

\* a define in a closure body shadows an outer binding, and a closure made
\* after it in that body looks the name up
C7_Witness ==
    \E i \in Events("define") : \E j \in Events("ret") :
        /\ i < j
        /\ log[i].env # 1
        /\ Holder(log[i].pre, log[i].pre[log[i].env].parent, log[i].name) # 0
        /\ log[j].node.t = "Ident"
        /\ log[j].node.value = log[i].name
        /\ log[j].env # log[i].env
        /\ Holder(envs, log[j].env, log[i].name) = log[i].env
        /\ SameOpt(log[j].res, <<log[i].val>>)

\* (define a [..]) (define g (fn [] (get a 0))) (define s (fn [i] (set a i 9)))
\* (s 0) (g): one closure sets the array of the scope it shares with another
SharedSetScenario ==
    /\ Len(prog) = 5
    /\ prog[3] = Def("s", Fn(<<Ident("i")>>, SetBody(1)))
    /\ prog[4] = Call("s", <<Integer(0)>>)

\* C8: a successful set of n executed in E changes one binding, that of n
\* in the nearest environment of E's chain that holds n: no other
\* environment and no other name changes, and every chain that reaches that
\* binding, such as another closure's, sees the new array.
C8_SetNearest ==
    /\ \A i \in Events("set") :
          LET e == log[i]
              h == Holder(e.pre, e.env, e.name)
          IN  /\ h # 0
              /\ Len(e.post) = Len(e.pre)
              /\ \A j \in 1..Len(e.pre) : j # h => e.post[j] = e.pre[j]
              /\ e.post[h].parent = e.pre[h].parent
              /\ DOMAIN e.post[h].values = DOMAIN e.pre[h].values
              /\ \A k \in DOMAIN e.pre[h].values \ {e.name} :
                    e.post[h].values[k] = e.pre[h].values[k]
              /\ e.post[h].values[e.name].ev = "Value"
              /\ e.post[h].values[e.name].ast.t = "Array"
              /\ \E k \in 1..Len(e.post[h].values[e.name].ast.items) :
                    AstEq(e.post[h].values[e.name].ast.items[k], e.val)
              /\ \A d \in 1..Len(e.post) :
                    Holder(e.pre, d, e.name) = h =>
                        find(e.post, d, e.name) = <<e.post[h].values[e.name]>>
    /\ (SharedSetScenario /\ pc = 6) => (~failed /\ last = <<Integer(9)>>)

C8_Witness == SharedSetScenario /\ pc = 6 /\ ~failed /\ last = <<Integer(9)>>

\* the sum of the components c of the operands a
RECURSIVE Sum(_, _)
Sum(a, c) == IF a = << >> THEN 0 ELSE a[1].value[c] + Sum(Tail(a), c)

\* C9: (+ a1 .. an) over Integer and Float operands, n >= 0, is a Float iff
\* some operand is a Float, and otherwise the Integer that is the exact sum
\* of the operands.
C9_AddExact ==
    \A i \in Events("thunk") :
        LET a == Operands(log[i])
        IN  (log[i].op = "+" /\ \A k \in 1..Len(a) : a[k].t \in {"Integer", "Float"}) =>
                IF \E k \in 1..Len(a) : a[k].t = "Float"
                THEN log[i].val.t = "Float"
                ELSE /\ log[i].val.t = "Integer"
                     /\ log[i].val.value = <<Sum(a, 1), Sum(a, 2)>>

\* the "ret" of the call of execute_node that event i enters, 0 when that
\* call does not return
Close(i) ==
    LET c == {r \in (i + 1)..Len(log) : log[r].ev = "ret" /\ log[r].depth = log[i].depth}
    IN  IF c = {} THEN 0 ELSE CHOOSE r \in c : \A q \in c : r <= q

\* the calls of execute_node made directly by the call that event i enters
Kids(i) ==
    {k \in (i + 1)..(IF Close(i) = 0 THEN Len(log) ELSE Close(i)) :
        log[k].ev = "enter" /\ log[k].depth = log[i].depth + 1}

\* the if forms with a then- and an else-branch whose condition, the first
\* call they make, returned a Boolean
IfBoth ==
    {i \in Events("enter") :
        /\ log[i].node.t = "Sexpr"
        /\ log[i].node.op = "if"
        /\ Len(log[i].node.operands) = 3
        /\ Close(i + 1) # 0
        /\ Len(log[Close(i + 1)].res) = 1
        /\ log[Close(i + 1)].res[1].t = "Boolean"}

\* (if (= 1 1) (print "yes\n") (print "no\n"))
YesScenario == <<Sexpr("if", <<Call("=", <<Integer(1), Integer(1)>>), Yes, No>>)>>

\* C10: an if with a Boolean condition and both branches evaluates, after
\* its condition, exactly one node: the then-branch when the condition is
\* true and the else-branch when it is false, in its own environment; the
\* value of the form is the value of that branch; and
\* (if (= 1 1) (print "yes\n") (print "no\n")) writes yes and a newline.
C10_OneBranch ==
    /\ \A i \in IfBoth :
          LET n == log[i].node
              sel == IF log[Close(i + 1)].res[1].value THEN n.operands[2] ELSE n.operands[3]
              kids == Kids(i) \ {i + 1}
          IN  /\ Cardinality(kids) = 1
              /\ \A k \in kids :
                    /\ AstEq(log[k].node, sel)
                    /\ log[k].env = log[i].env
                    /\ Close(i) # 0 =>
                          (Close(k) # 0 /\ SameOpt(log[Close(i)].res, log[Close(k)].res))
    /\ (prog = YesScenario /\ pc = 2) => (~failed /\ out = <<"y", "e", "s", "\n">>)

\* the scenario has run: its condition was true and the form returned
C10_Witness ==
    /\ prog = YesScenario
    /\ pc = 2
    /\ out = <<"y", "e", "s", "\n">>
    /\ \E i \in IfBoth : log[Close(i + 1)].res[1].value /\ Close(i) # 0

\* C11: (set T i v) with a literal array T changes no environment, and the
\* value of the S-expression is Nil.
C11_LiteralSetNil ==
    /\ \A i \in Events("thunk") :
          (log[i].op = "set" /\ log[i].ops = 3 /\ Operands(log[i])[1].t = "Array") =>
              SameOpt(log[i + 1].res, <<Nil>>)
    /\ (/\ Len(prog) = 1
        /\ prog[1].t = "Sexpr"
        /\ prog[1].op = "set"
        /\ Len(prog[1].operands) = 3
        /\ prog[1].operands[1].t = "Array"
        /\ pc = 2) =>
          /\ ~failed
          /\ last = <<Nil>>
          /\ Len(envs) = 1
          /\ DOMAIN envs[1].values = DOMAIN Builtins \cup {"FILE"}
          /\ \A b \in DOMAIN Builtins : envs[1].values[b] = Builtins[b]

\* the parameter lists made of plain names only
AllPlain(params) ==
    \A k \in 1..Len(params) :
        params[k].t = "Ident" /\ params[k].value \notin DOMAIN RestNames

\* the programs (define x (fn [plain parameters] ..)) (x a1 .. an) with
\* more arguments than parameters
OverSupplied ==
    /\ Len(prog) = 2
    /\ prog[1].t = "Sexpr"
    /\ prog[1].op = "define"
    /\ Len(prog[1].operands) = 2
    /\ prog[1].operands[1] = Ident("x")
    /\ prog[1].operands[2].t = "Sexpr"
    /\ prog[1].operands[2].op = "fn"
    /\ Len(prog[1].operands[2].operands) >= 1
    /\ prog[1].operands[2].operands[1].t = "Array"
    /\ AllPlain(prog[1].operands[2].operands[1].items)
    /\ prog[2].t = "Sexpr"
    /\ prog[2].op = "x"
    /\ Len(prog[2].operands) > Len(prog[1].operands[2].operands[1].items)

\* C12: a call of a closure with k plain parameters and n > k arguments does
\* not abort: parameter i is bound to argument i for i = 1..k, no other
\* name is bound, and none of the n arguments stays on the stack.
C12_SurplusDropped ==
    /\ \A i \in Events("call") :
          LET e == log[i]
              k == Len(e.params)
              n == Len(e.args)
          IN  (AllPlain(e.params) /\ n > k) =>
                 /\ DOMAIN e.bound = {e.params[j].value : j \in 1..k}
                 /\ \A j \in 1..k : e.bound[e.params[j].value] = Value(e.args[j])
                 /\ e.stack = SubSeq(e.before, 1, Len(e.before) - n)
    /\ (OverSupplied /\ pc = 3) => ~failed

\* a closure of two parameters was called with three arguments below
\* another operand
C12_Witness ==
    \E i \in Events("call") :
        /\ AllPlain(log[i].params)
        /\ Len(log[i].params) = 2
        /\ Len(log[i].args) = 3
        /\ Len(log[i].before) > 3
        /\ pc = 3
        /\ ~failed

\* C13: arrays are values: a set of n rebinds n in its nearest holder, and
\* every other binding that held the array before the set, in whatever
\* environment and under whatever name, holds it unchanged after the set;
\* after (define b a) and a set of a, b reads as before; an array taken
\* out of a by get and then set leaves a as it was.
C13_ValueSemantics ==
    /\ \A i \in Events("set") :
          LET e == log[i]
              h == Holder(e.pre, e.env, e.name)
          IN  \A j \in 1..Len(e.pre) : \A k \in DOMAIN e.pre[j].values :
                  (/\ <<j, k>> # <<h, e.name>>
                   /\ e.pre[j].values[k] = e.pre[h].values[e.name])
                      => e.post[j].values[k] = Value(Array(e.old))
    /\ \A i \in {0, 1} :
          (prog = AliasScenario(i) /\ pc = 5) =>
              (~failed /\ last = <<Integer(i + 1)>>
                  /\ envs[1].values["b"] = Value(Iota(2)))
    /\ \A i \in {0, 1} :
          (prog = ElementScenario(i) /\ pc = 5) =>
              (~failed /\ last = <<Integer(i + 1)>>
                  /\ envs[1].values["a"] = Value(Array(<<Iota(2), Integer(3)>>)))

\* a was set while b held its array, and b was read afterwards
C13_Witness ==
    /\ prog = AliasScenario(0)
    /\ pc = 5
    /\ ~failed
    /\ last = <<Integer(1)>>
    /\ envs[1].values["a"] = Value(Array(<<Integer(9), Integer(2)>>))

\* (define x 0) (define u 8) (import "./m") x u
ImportOverScenario ==
    <<Def("x", Integer(0)), Def("u", Integer(8)), Imp(ImportPaths[1]), Ident("x"),
      Ident("u")>>

\* C14: when an import returns, every name the module's root environment
\* binds, such as the x its top-level forms define, is looked up from the
\* importing environment with the module's value; the module ran in a new
\* interpreter whose root environment held the built-ins and FILE and no
\* binding of the importer; with x = 0 before (import "./m"), x is 1 after.
C14_ImportVisible ==
    /\ \A i \in Events("import") :
          LET e == log[i]
          IN  /\ e.interp > Len(e.pre)
              /\ \A k \in DOMAIN e.module : find(e.post, e.env, k) = <<e.module[k]>>
    /\ \A i \in Events("module") :
          /\ log[i].interp = Len(log[i].heap)
          /\ log[i].root.parent = 0
          /\ DOMAIN log[i].root.values = DOMAIN Builtins \cup {"FILE"}
          /\ \A b \in DOMAIN Builtins : log[i].root.values[b] = Builtins[b]
          /\ log[i].root.values["FILE"] = Value(String(log[i].path))
    /\ (prog = ImportOverScenario /\ pc = 5) => (~failed /\ last = <<Integer(1)>>)

C14_Witness == prog = ImportOverScenario /\ pc = 5 /\ ~failed /\ last = <<Integer(1)>>

\* (import P) (import P) x for the i-th path of ImportPaths
TwiceScenario(i) == <<Imp(ImportPaths[i]), Imp(ImportPaths[i]), Ident("x")>>

\* C15: a second import of the same path, "./m", "./sub/m" or "../m",
\* right after the first returns and leaves the importer's environment as
\* the first left it, and writes the module's output once more.
C15_ImportTwice ==
    [][\A i \in {1, 4, 5} :
          (prog = TwiceScenario(i) /\ pc = 2 /\ pc' = 3) =>
              /\ ~failed'
              /\ envs'[1] = envs[1]
              /\ Len(out') = 2 * Len(out)]_vars

\* C16: whatever forms have run, each of the eleven built-in names is bound
\* in the root environment to its native procedure.
C16_BuiltinsFixed ==
    \A b \in DOMAIN Builtins :
        /\ b \in DOMAIN envs[1].values
        /\ envs[1].values[b] = Builtins[b]

\* C17: a built-in called with ops operands, when it returns, has taken
\* exactly these ops values off the stack and left what was below them as
\* it was.
C17_ConsumesOps ==
    \A i \in Events("thunk") :
        /\ Len(log[i].before) >= log[i].ops
        /\ log[i].after = SubSeq(log[i].before, 1, Len(log[i].before) - log[i].ops)

\* the "enter" of the call of execute_node that event i belongs to
Opener(i) ==
    CHOOSE j \in 1..i :
        /\ log[j].ev = "enter"
        /\ log[j].depth = log[i].depth
        /\ \A q \in (j + 1)..i : ~(log[q].ev = "enter" /\ log[q].depth = log[i].depth)

\* C18: fn captures the environment it is evaluated in, and a call of the
\* closure makes one new environment whose parent is that captured
\* environment, whatever environment the call is made from; a free name of
\* the body is looked up through the captured chain, and sees what was
\* defined or rebound there after the closure was made.
C18_LexicalScope ==
    /\ \A i \in Events("thunk") :
          log[i].op = "fn" =>
              (log[i].val.t = "Code" /\ log[i].val.env = log[i + 1].env)
    /\ \A i \in Events("call") :
          LET e == log[i]
          IN  /\ Len(e.heap) = e.env
              /\ e.heap[e.env].parent = e.code.env
              /\ find(e.heap, log[Opener(i)].env, e.op) = <<Value(e.code)>>
    /\ (prog = LexicalScenario /\ pc = 5) => (~failed /\ last = <<Integer(1)>>)
    /\ (prog = LateScenario /\ pc = 4) => (~failed /\ last = <<Integer(5)>>)
    /\ (prog = LateScenario /\ pc = 6) => (~failed /\ last = <<Integer(6)>>)

\* f was called from the body of g, whose environment binds y to 2, and
\* its new environment has the root, where f was made, as parent
C18_Witness ==
    /\ prog = LexicalScenario
    /\ pc = 5
    /\ last = <<Integer(1)>>
    /\ \E i \in Events("call") :
          /\ log[i].op = "f"
          /\ log[Opener(i)].env # 1
          /\ log[i].heap[log[i].env].parent = 1

\* the S-expressions entered whose operator is none of fn, if, define, set
Ordinary ==
    {i \in Events("enter") :
        /\ log[i].node.t = "Sexpr"
        /\ log[i].node.op \notin {"fn", "if", "define", "set"}}

\* how many of the calls in K were entered up to event k
Rank(K, k) == Cardinality({q \in K : q <= k})

\* C19: an S-expression whose operator is none of fn, if, define, set
\* evaluates its operands in its own environment from the first to the
\* last, each once, and its operator is looked up and called only when all
\* of them have returned: the operator bound by an operand is the one
\* called, and an unbound operator aborts after the operands have printed.
C19_OperandsFirst ==
    /\ \A i \in Ordinary :
          LET n == Len(log[i].node.operands)
              K == Kids(i)
              last_ == IF Close(i) = 0 THEN Len(log) ELSE Close(i)
          IN  /\ \A k \in K :
                    IF Rank(K, k) <= n
                    THEN /\ AstEq(log[k].node, log[i].node.operands[Rank(K, k)])
                         /\ log[k].env = log[i].env
                    ELSE log[k].env # log[i].env
              /\ \A t \in (i + 1)..last_ :
                    (log[t].ev \in {"thunk", "call"} /\ log[t].depth = log[i].depth) =>
                        /\ Cardinality({k \in K : k < t}) >= n
                        /\ \A k \in K : Rank(K, k) <= n => (Close(k) # 0 /\ Close(k) < t)
              /\ Close(i) # 0 => Cardinality(K) >= n
    /\ (prog = RebindScenario /\ pc = 3) => (~failed /\ last = <<Integer(2)>>)
    /\ (prog = UnboundScenario /\ pc = 2) =>
          (failed /\ out = <<"y", "e", "s", "\n", "n", "o", "\n">>)

\* an unbound operator aborted after its two operands had printed, in order
C19_Witness ==
    /\ prog = UnboundScenario
    /\ pc = 2
    /\ failed
    /\ out = <<"y", "e", "s", "\n", "n", "o", "\n">>
    /\ \E i \in Ordinary : Cardinality(Kids(i)) = 2 /\ Close(i) = 0

\* (import "./sub/m") (import "./n") z
FileScenario == <<Imp(ImportPaths[4]), Imp(<<".", "/", "n">>), Ident("z")>>

KeepsFile(interp) ==
    /\ \A q \in Events("define") : ~(log[q].env = interp /\ log[q].name = "FILE")
    /\ \A q \in Events("import") : log[q].env # interp

====
